---- MODULE Spec2Model ----
(***************************************************************************)
(* Model of the fiscal XML API core: the government tax-calculation client *)
(* (app/services/government_api.py), the TaxDetails / NFEDocument models   *)
(* (app/models/fiscal.py) and the XML parser / generator / processor       *)
(* (app/services/xml_processor.py).                                        *)
(*                                                                         *)
(* Monetary values and rates of the client are integers in hundredths      *)
(* (12.50 is 1250); Decimal arithmetic is exact, so nothing is lost.       *)
(* XML leaf texts are decimal literals [m, s]: mantissa m with s digits    *)
(* after the point ("18.5" is [m |-> 185, s |-> 1]).                       *)
(***************************************************************************)
EXTENDS Integers, Sequences, FiniteSets, TLC

VARIABLES
    \* ---- one call of the tax-calculation client ----
    retry_attempts,   \* GovernmentAPIClient.retry_attempts (settings)
    client,           \* GovernmentAPIClient._client: "none" | "open"
    op,               \* API method running: "none" | "ibs_cbs" | "selective"
    base_value,       \* the base_value argument of the call
    pc,               \* "idle" | "await_response" | "sleeping" | "returned" | "raised"
    attempt,          \* loop variable of _make_request_with_retry
    last_exception,   \* local last_exception of _make_request_with_retry
    sent,             \* number of self._client.request calls made
    sleeps,           \* the asyncio.sleep durations, in order
    responses,        \* what the service answered, one entry per request
    inner,            \* outcome of _make_request_with_retry
    result,           \* outcome of the API method, as the caller sees it
    cancelled,        \* an external cancellation / deadline hit the call
    \* ---- calculate_document_taxes invocations on one TaxCalculatorService ----
    docs,             \* docs[p]: the items argument of invocation p
    svc_client,       \* self.api_client._client: 0 (None) or the id of an AsyncClient
    closed,           \* the AsyncClients that were closed (aclose)
    procs,            \* procs[p]: where invocation p stands, and its locals
    \* ---- one document through XMLParser / XMLGenerator / XMLProcessor ----
    xml,              \* the xml_content handed in
    stage,            \* "new" | "parsed" | "processed" | "failed"
    doc,              \* the NFEDocument the caller holds (present = FALSE: none)
    perr,             \* the XMLProcessingError of parse / process ("" when none)
    gen,              \* outcome of the last update_nfe_xml call
    nupdates,         \* update_nfe_xml calls made on the document
    recalculated,     \* the caller put newly computed taxes into the document
    log,              \* item numbers the parser logged a warning for
    \* ---- one call of an XMLValidator method ----
    cnpj_arg,         \* the argument of validate_cnpj: a sequence of characters
    key_arg,          \* the argument of validate_document_key
    verdict           \* the method called, and what the call gave

clientVars == <<retry_attempts, client, op, base_value, pc, attempt,
                last_exception, sent, sleeps, responses, inner, result, cancelled>>

serviceVars == <<docs, svc_client, closed, procs>>

xmlVars == <<xml, stage, doc, perr, gen, nupdates, recalculated, log>>

validatorVars == <<cnpj_arg, key_arg, verdict>>

----------------------------------------------------------------------------
(* Bounds of the model *)

MaxRetry == 3
MaxItems == 2
MaxDets == 2
MaxUpdates == 2

(* Program constants *)

RateMax == 10000          \* le=100 of the rate fields, in hundredths

----------------------------------------------------------------------------
(* TaxDetails (app/models/fiscal.py) *)

TaxFields == {"ibs_base", "ibs_rate", "ibs_value", "cbs_base", "cbs_rate",
              "cbs_value", "selective_tax_base", "selective_tax_rate",
              "selective_tax_value", "total_federal_taxes"}

\* TaxDetails(): every field at its default Decimal('0')
TaxDetailsDefaults == [f \in TaxFields |-> 0]

\* A wrong reading of the validator: the field name is known to it.
ValidatorFieldName_known(field) == field

\* The name of the field a validator call is for.  The validator is declared
\* (cls, v, values, **kwargs); it is called with v and values only, kwargs
\* carries no 'info', so field_name is always ''.
ValidatorFieldName(field) == ""

\* @validator('ibs_value', 'cbs_value', 'selective_tax_value', always=True)
\* values: the fields validated so far.  base * rate / 100 in hundredths is
\* base * rate / 10000 (exact when the division is; the quotient otherwise).
calculate_tax_values(field, v, values) ==
    LET field_name == ValidatorFieldName(field) IN
    IF field_name = "" THEN v
    ELSE IF field_name = "ibs_value"
         THEN (values.ibs_base * values.ibs_rate) \div 10000
    ELSE IF field_name = "cbs_value"
         THEN (values.cbs_base * values.cbs_rate) \div 10000
    ELSE IF field_name = "selective_tax_value"
         THEN (values.selective_tax_base * values.selective_tax_rate) \div 10000
    ELSE v

\* Field constraints: ge=0 everywhere, le=100 for the rates.
FieldConstraintsOk(td) ==
    /\ \A f \in TaxFields : td[f] >= 0
    /\ td.ibs_rate <= RateMax
    /\ td.cbs_rate <= RateMax
    /\ td.selective_tax_rate <= RateMax

\* TaxDetails(**kw): [ok, td]; ok = FALSE is pydantic's ValidationError.
\* Constraints are checked on the given values, then the validator runs.
TaxDetailsNew(kw) ==
    LET given == [f \in TaxFields |-> IF f \in DOMAIN kw THEN kw[f] ELSE 0]
        td == [given EXCEPT
                 !.ibs_value = calculate_tax_values("ibs_value", given.ibs_value, given),
                 !.cbs_value = calculate_tax_values("cbs_value", given.cbs_value, given),
                 !.selective_tax_value =
                     calculate_tax_values("selective_tax_value",
                                          given.selective_tax_value, given)]
    IN [ok |-> FieldConstraintsOk(given), td |-> td]

----------------------------------------------------------------------------
(* The tax service as the client sees it *)

\* A JSON value under a key: a number, absent, or present but no number.
Num(n)  == [k |-> "num", v |-> n]
Absent  == [k |-> "absent", v |-> 0]
NotNum  == [k |-> "nan", v |-> 0]

BodyKeys == {"aliquotaIBS", "valorIBS", "aliquotaCBS", "valorCBS",
             "valorImpostoSeletivo"}

\* json = FALSE: the body is no JSON object (response.json() or data.get raises)
NoBody == [json |-> FALSE, f |-> [key \in BodyKeys |-> Absent]]

JsonBody(aI, vI, aC, vC, vS) ==
    [json |-> TRUE,
     f |-> [key \in BodyKeys |->
              CASE key = "aliquotaIBS" -> aI
                [] key = "valorIBS" -> vI
                [] key = "aliquotaCBS" -> aC
                [] key = "valorCBS" -> vC
                [] OTHER -> vS]]

\* The 2xx bodies the service is let to answer with.  In the first the
\* values are not base * rate / 100 of any base the model calls with.
Bodies ==
    { JsonBody(Num(1250), Num(1250), Num(900), Num(777), Num(333)),
      JsonBody(Absent, Absent, Absent, Absent, Absent),
      JsonBody(Num(15000), Num(100), Num(900), Num(90), Num(25)),
      JsonBody(Num(1000), Num(100), Num(900), Num(-90), Num(-50)),
      JsonBody(Num(1000), NotNum, Num(900), Num(90), NotNum),
      NoBody }

Http(status, body) == [kind |-> "http", status |-> status, body |-> body]
NetworkError == [kind |-> "network", status |-> 0, body |-> NoBody]
Timeout      == [kind |-> "timeout", status |-> 0, body |-> NoBody]

SuccessStatuses == {200}
FailureStatuses == {302, 400, 404, 429, 499, 500, 503}

Responses ==
    {Http(s, b) : s \in SuccessStatuses, b \in Bodies}
    \cup {Http(s, NoBody) : s \in FailureStatuses}
    \cup {NetworkError, Timeout}

BaseValues == {10000, 2550}

----------------------------------------------------------------------------
(* Outcomes *)

NoFailure == [exc |-> "None", status |-> 0]

\* str(e) of what one attempt failed with
FailureOf(r) ==
    IF r.kind = "http" THEN [exc |-> "HTTPStatusError", status |-> r.status]
    ELSE IF r.kind = "timeout" THEN [exc |-> "TimeoutException", status |-> 0]
    ELSE [exc |-> "RequestError", status |-> 0]

\* kind: "none" | "return" | "raise"; exc: the exception type; why: which
\* raise statement; last: the failure the message is built from;
\* tax / value: what is returned.
Outcome(kind, exc, why, last, tax, value) ==
    [kind |-> kind, exc |-> exc, why |-> why, last |-> last,
     tax |-> tax, value |-> value]

NoOutcome == Outcome("none", "None", "", NoFailure, TaxDetailsDefaults, 0)
Raise(exc, why, last) == Outcome("raise", exc, why, last, TaxDetailsDefaults, 0)
ReturnResponse == Outcome("return", "None", "", NoFailure, TaxDetailsDefaults, 0)
ReturnTax(td) == Outcome("return", "None", "", NoFailure, td, 0)
ReturnValue(v) == Outcome("return", "None", "", NoFailure, TaxDetailsDefaults, v)

----------------------------------------------------------------------------
(* GovernmentAPIClient (app/services/government_api.py) *)

\* response.raise_for_status(): anything but 2xx raises HTTPStatusError
IsSuccess(status) == 200 <= status /\ status < 300

\* A plausible slip: 429 is not excepted.
IsTerminalStatus_no429(status) == 400 <= status /\ status < 500

\* line 307: 4xx other than 429 is re-raised, not retried
IsTerminalStatus(status) == 400 <= status /\ status < 500 /\ status # 429

\* A plausible slip: the first failure is kept, later ones dropped.
RecordFailure_first(prev, r) == IF prev = NoFailure THEN FailureOf(r) ELSE prev

\* lines 310 and 313: last_exception = e
RecordFailure(prev, r) == FailureOf(r)

\* A plausible slip: linear instead of exponential.
wait_time_linear(a) == 2 * a

\* line 317: wait_time = 2 ** attempt
wait_time(a) == 2 ^ a

\* A plausible slip: the guard lets the last attempt sleep too.
SleepsAfter_always(a, n) == a < n

\* line 316: if attempt < self.retry_attempts - 1
SleepsAfter(a, n) == a < n - 1

\* except Exception catches these; asyncio.CancelledError is a BaseException
\* and passes through every except Exception clause
IsException(exc) ==
    exc \in {"HTTPStatusError", "RequestError", "TimeoutException",
             "GovernmentAPIError", "RuntimeError", "ValidationError", "Exception"}

JsonNumber(body, key) == IF body.f[key].k = "num" THEN body.f[key].v ELSE 0

\* lines 96-106: data = response.json(); Decimal(str(data.get(key, "0"))) for
\* the four keys; TaxDetails(...).  ok = FALSE: an exception was raised.
IbsCbsOfBody(base, body) ==
    IF \/ ~body.json
       \/ \E key \in {"aliquotaIBS", "valorIBS", "aliquotaCBS", "valorCBS"} :
             body.f[key].k = "nan"
    THEN [ok |-> FALSE, td |-> TaxDetailsDefaults]
    ELSE TaxDetailsNew([ibs_base |-> base,
                        ibs_rate |-> JsonNumber(body, "aliquotaIBS"),
                        ibs_value |-> JsonNumber(body, "valorIBS"),
                        cbs_base |-> base,
                        cbs_rate |-> JsonNumber(body, "aliquotaCBS"),
                        cbs_value |-> JsonNumber(body, "valorCBS")])

\* calculate_ibs_cbs around its call of _make_request_with_retry: in is the
\* outcome of that call, r the response it returned (if it did).
calculate_ibs_cbs(base, in, r) ==
    IF in.kind = "return"
    THEN LET got == IbsCbsOfBody(base, r.body) IN
         IF got.ok THEN ReturnTax(got.td)
         ELSE Raise("GovernmentAPIError", "processing",
                    [exc |-> "Exception", status |-> 0])           \* line 150
    ELSE IF in.exc = "HTTPStatusError"
         THEN Raise("GovernmentAPIError", "api_status", in.last)   \* line 136
    ELSE IF IsException(in.exc)
         THEN Raise("GovernmentAPIError", in.why, in.last)         \* line 150
    ELSE in

\* A plausible slip: the fallback is dropped and the error propagates.
calculate_selective_tax_raising(in, r) ==
    IF in.kind = "return"
    THEN ReturnValue(JsonNumber(r.body, "valorImpostoSeletivo"))
    ELSE in

\* calculate_selective_tax around its call of _make_request_with_retry
calculate_selective_tax(in, r) ==
    IF in.kind = "return"
    THEN IF r.body.json /\ r.body.f["valorImpostoSeletivo"].k # "nan"
         THEN ReturnValue(JsonNumber(r.body, "valorImpostoSeletivo"))
         ELSE ReturnValue(0)                                       \* line 215
    ELSE IF IsException(in.exc) THEN ReturnValue(0)                \* line 215
    ELSE in

ApiMethod(o, base, in, r) ==
    IF o = "ibs_cbs" THEN calculate_ibs_cbs(base, in, r)
    ELSE calculate_selective_tax(in, r)

\* _make_request_with_retry ends with outcome in; the API method takes over.
Finish(o, base, in, r) ==
    LET out == ApiMethod(o, base, in, r) IN
    /\ inner' = in
    /\ result' = out
    /\ pc' = IF out.kind = "return" THEN "returned" ELSE "raised"

\* An API method is called: _make_request_with_retry up to its first await.
Call(o, b) ==
    /\ pc = "idle"
    /\ op' = o
    /\ base_value' = b
    /\ IF client = "none"
       THEN /\ Finish(o, b, Raise("GovernmentAPIError", "not_initialised", NoFailure),
                      NetworkError)                                \* line 295
            /\ UNCHANGED <<attempt, sent>>
       ELSE IF retry_attempts <= 0
       THEN /\ Finish(o, b, Raise("GovernmentAPIError", "exhausted", last_exception),
                      NetworkError)                                \* line 329
            /\ UNCHANGED <<attempt, sent>>
       ELSE /\ attempt' = 0
            /\ sent' = sent + 1                                    \* line 301
            /\ pc' = "await_response"
            /\ UNCHANGED <<inner, result>>
    /\ UNCHANGED <<retry_attempts, client, last_exception, sleeps, responses, cancelled>>

\* A plausible slip: the loop runs while attempt <= retry_attempts.
LoopNext_inclusive(a) ==
    IF a + 1 <= retry_attempts
    THEN /\ attempt' = a + 1
         /\ sent' = sent + 1
         /\ pc' = "await_response"
         /\ UNCHANGED <<inner, result>>
    ELSE /\ Finish(op, base_value,
                   Raise("GovernmentAPIError", "exhausted", last_exception'),
                   NetworkError)
         /\ UNCHANGED <<attempt, sent>>

\* The for loop goes on after attempt a: the next request is sent, or the
\* range is used up and line 329 raises.
LoopNext(a) ==
    IF a + 1 < retry_attempts
    THEN /\ attempt' = a + 1
         /\ sent' = sent + 1                                       \* line 301
         /\ pc' = "await_response"
         /\ UNCHANGED <<inner, result>>
    ELSE /\ Finish(op, base_value,
                   Raise("GovernmentAPIError", "exhausted", last_exception'),
                   NetworkError)                                   \* line 329
         /\ UNCHANGED <<attempt, sent>>

\* The awaited request ends with r: lines 301-318.
Respond(r) ==
    /\ pc = "await_response"
    /\ responses' = Append(responses, r)
    /\ IF r.kind = "http" /\ IsSuccess(r.status)
       THEN /\ Finish(op, base_value, ReturnResponse, r)           \* line 303
            /\ UNCHANGED <<last_exception, sleeps, attempt, sent>>
       ELSE IF r.kind = "http" /\ IsTerminalStatus(r.status)
       THEN /\ Finish(op, base_value,
                      Raise("HTTPStatusError", "terminal", FailureOf(r)), r)  \* line 308
            /\ UNCHANGED <<last_exception, sleeps, attempt, sent>>
       ELSE /\ last_exception' = RecordFailure(last_exception, r)
            /\ IF SleepsAfter(attempt, retry_attempts)
               THEN /\ sleeps' = Append(sleeps, wait_time(attempt))  \* line 318
                    /\ pc' = "sleeping"
                    /\ UNCHANGED <<inner, result, attempt, sent>>
               ELSE /\ LoopNext(attempt)
                    /\ UNCHANGED sleeps
    /\ UNCHANGED <<retry_attempts, client, op, base_value, cancelled>>

\* asyncio.sleep returns: the warning is logged and the loop goes on.
Wake ==
    /\ pc = "sleeping"
    /\ last_exception' = last_exception
    /\ LoopNext(attempt)
    /\ UNCHANGED <<retry_attempts, client, op, base_value,
                   sleeps, responses, cancelled>>

\* The task is cancelled, or its deadline fires, while it is suspended in
\* the request or in the sleep: CancelledError is raised at that await.  No
\* except clause of the client names it.
Cancel ==
    /\ pc \in {"await_response", "sleeping"}
    /\ cancelled' = TRUE
    /\ Finish(op, base_value, Raise("CancelledError", "cancelled", NoFailure),
              NetworkError)
    /\ UNCHANGED <<retry_attempts, client, op, base_value, attempt,
                   last_exception, sent, sleeps, responses>>

ClientInit ==
    /\ retry_attempts \in 0..MaxRetry
    /\ client \in {"none", "open"}
    /\ op = "none"
    /\ base_value = 0
    /\ pc = "idle"
    /\ attempt = 0
    /\ last_exception = NoFailure
    /\ sent = 0
    /\ sleeps = <<>>
    /\ responses = <<>>
    /\ inner = NoOutcome
    /\ result = NoOutcome
    /\ cancelled = FALSE

----------------------------------------------------------------------------
(* TaxCalculatorService.calculate_document_taxes, two invocations on one   *)
(* service object.  asyncio runs one coroutine at a time and switches only *)
(* at an await that suspends: the request, the sleep.  The service is      *)
(* healthy here: a request on an open client is answered 200.              *)

Invocations == {1, 2}

\* What the healthy service answers for a base value: IBS 10%, CBS 9%.
ServiceBody(base) ==
    JsonBody(Num(1000), Num((base * 1000) \div 10000),
             Num(900), Num((base * 900) \div 10000),
             Num(base \div 100))

Items == UNION {[1..n -> [total_value : BaseValues]] : n \in 1..MaxItems}

\* A local state of an invocation.  pc: "start" | "ibs_wait" | "ibs_sleep" |
\* "sel_wait" | "sel_sleep" | "done" | "failed"; idx: the item of the for
\* loop; att: attempt of the running _make_request_with_retry; inflight: the
\* AsyncClient the pending request was sent on; cur: tax_details of the
\* item; item_taxes, total_taxes: the locals of these names.
ProcInit ==
    [pc |-> "start", idx |-> 1, att |-> 0, inflight |-> 0,
     cur |-> TaxDetailsDefaults, item_taxes |-> <<>>,
     total_taxes |-> TaxDetailsDefaults, exc |-> "None"]

\* st = [p: the local state, cl: self._client, closed: the closed clients]

\* __aexit__ (lines 46-49): the AsyncClient self._client names now is closed
aexit(st) ==
    [st EXCEPT !.closed = IF st.cl # 0 THEN st.closed \cup {st.cl} ELSE st.closed]

\* The exception leaves the async with block: __aexit__, then re-raised.
FailDoc(st, exc) ==
    LET e == aexit(st) IN
    [e EXCEPT !.p.pc = "failed", !.p.exc = exc]              \* lines 405-411

\* lines 388-403: the totals, the return through __aexit__
ExitOk(st) ==
    LET e == aexit(st)
        t == st.p.total_taxes
    IN [e EXCEPT !.p.pc = "done",
                 !.p.total_taxes.total_federal_taxes =
                     t.ibs_value + t.cbs_value + t.selective_tax_value]

\* self._client.request on a closed AsyncClient raises RuntimeError, which
\* no except clause of _make_request_with_retry names.
CanSend(st) == st.cl \notin st.closed

\* line 364: calculate_ibs_cbs for item idx, up to its first await
SendIbs(st) ==
    IF CanSend(st)
    THEN [st EXCEPT !.p.pc = "ibs_wait", !.p.att = 0, !.p.inflight = st.cl]
    ELSE FailDoc(st, "GovernmentAPIError")                  \* line 150

\* A plausible slip: the totals are assigned, not added to.
AfterSelective_assigning(st, v) ==
    LET td == [st.p.cur EXCEPT !.selective_tax_value = v]
        t == st.p.total_taxes
    IN [st EXCEPT
          !.p.item_taxes = Append(st.p.item_taxes, td),
          !.p.total_taxes =
              [t EXCEPT !.ibs_value = td.ibs_value,
                        !.cbs_value = td.cbs_value,
                        !.selective_tax_value = td.selective_tax_value],
          !.p.idx = st.p.idx + 1]

\* lines 378-385 with the selective tax v, then the next item or the end
AfterSelective(st, v) ==
    LET td == [st.p.cur EXCEPT !.selective_tax_value = v]
        t == st.p.total_taxes
        st2 == [st EXCEPT
                  !.p.item_taxes = Append(st.p.item_taxes, td),
                  !.p.total_taxes =
                      [t EXCEPT !.ibs_value = t.ibs_value + td.ibs_value,
                                !.cbs_value = t.cbs_value + td.cbs_value,
                                !.selective_tax_value =
                                    t.selective_tax_value + td.selective_tax_value],
                  !.p.idx = st.p.idx + 1]
    IN st2

\* line 373: calculate_selective_tax for item idx, up to its first await;
\* on a closed client the RuntimeError becomes the fallback 0
SendSel(st) ==
    IF CanSend(st)
    THEN [st EXCEPT !.p.pc = "sel_wait", !.p.att = 0, !.p.inflight = st.cl]
    ELSE [AfterSelective(st, 0) EXCEPT !.p.pc = "next"]

\* the for loop of line 362 at item st.p.idx
ForItems(st, items) ==
    IF st.p.idx > Len(items) THEN ExitOk(st) ELSE SendIbs(st)

\* after calculate_selective_tax returned or fell back
Continue(st, items) ==
    IF st.p.pc = "next" THEN ForItems(st, items) ELSE st

\* The running API method ends with outcome out.
MethodEnds(st, which, out, items) ==
    IF which = "ibs"
    THEN IF out.kind = "return"
         THEN Continue(SendSel([st EXCEPT !.p.cur = out.tax]), items)
         ELSE FailDoc(st, out.exc)
    ELSE Continue([AfterSelective(st, out.value) EXCEPT !.p.pc = "next"], items)

Which(st) == IF st.p.pc \in {"ibs_wait", "ibs_sleep"} THEN "ibs" ELSE "sel"

MethodOutcome(which, base, in, r) ==
    IF which = "ibs" THEN calculate_ibs_cbs(base, in, r)
    ELSE calculate_selective_tax(in, r)

St(p) == [p |-> procs[p], cl |-> svc_client, closed |-> closed]

Commit(p, st) ==
    /\ procs' = [procs EXCEPT ![p] = st.p]
    /\ svc_client' = st.cl
    /\ closed' = st.closed

\* calculate_document_taxes is called: __aenter__ (lines 33-44) puts a new
\* AsyncClient in self._client, whatever was there; then the first item.
Enter(p) ==
    /\ procs[p].pc = "start"
    /\ Commit(p, ForItems([St(p) EXCEPT !.cl = p], docs[p]))
    /\ UNCHANGED <<docs, clientVars, xmlVars, validatorVars>>

\* The pending request of p ends: with the service's 200, or, when the
\* AsyncClient it was sent on has been closed meanwhile, possibly with a
\* transport error (httpx.RequestError).
Recv(p, ok) ==
    LET st == St(p)
        which == Which(st)
        base == docs[p][st.p.idx].total_value
        r == IF ok THEN Http(200, ServiceBody(base)) ELSE NetworkError
    IN
    /\ procs[p].pc \in {"ibs_wait", "sel_wait"}
    /\ ok \/ procs[p].inflight \in closed
    /\ IF ok
       THEN Commit(p, MethodEnds(st, which,
                                 MethodOutcome(which, base, ReturnResponse, r),
                                 docs[p]))
       ELSE IF SleepsAfter(st.p.att, retry_attempts)
       THEN Commit(p, [st EXCEPT !.p.pc = IF which = "ibs" THEN "ibs_sleep"
                                          ELSE "sel_sleep"])
       ELSE Commit(p, MethodEnds(st, which,
                                 MethodOutcome(which, base,
                                     Raise("GovernmentAPIError", "exhausted",
                                           FailureOf(r)), r),
                                 docs[p]))
    /\ UNCHANGED <<docs, clientVars, xmlVars, validatorVars>>

\* asyncio.sleep of p returns: the next attempt is sent on self._client as
\* it is now.
WakeInvocation(p) ==
    LET st == St(p)
        which == Which(st)
        base == docs[p][st.p.idx].total_value
    IN
    /\ procs[p].pc \in {"ibs_sleep", "sel_sleep"}
    /\ IF CanSend(st)
       THEN Commit(p, [st EXCEPT !.p.pc = IF which = "ibs" THEN "ibs_wait"
                                          ELSE "sel_wait",
                                 !.p.att = st.p.att + 1,
                                 !.p.inflight = st.cl])
       ELSE Commit(p, MethodEnds(st, which,
                                 MethodOutcome(which, base,
                                     Raise("RuntimeError", "closed", NoFailure),
                                     NetworkError),
                                 docs[p]))
    /\ UNCHANGED <<docs, clientVars, xmlVars, validatorVars>>

ServiceIdle ==
    /\ docs = [p \in Invocations |-> <<>>]
    /\ svc_client = 0
    /\ closed = {}
    /\ procs = [p \in Invocations |-> ProcInit]

ServiceInit ==
    /\ docs \in [Invocations -> Items]
    /\ svc_client = 0
    /\ closed = {}
    /\ procs = [p \in Invocations |-> ProcInit]

----------------------------------------------------------------------------
(* The NF-e XML as lxml sees it.  A document text is [tree, decl, layout]: *)
(* the element tree, whether the text starts with an XML declaration, and  *)
(* how it is laid out ("compact": no whitespace between elements,          *)
(* "indented": whitespace text between elements).                          *)

Dec(m, s) == [m |-> m, s |-> s]
Leaf(m, s) == [present |-> TRUE, text |-> Dec(m, s)]
NoLeaf == [present |-> FALSE, text |-> Dec(0, 0)]

\* ICMS / PIS / COFINS under imposto: the group element with its first
\* child (ICMS00, PISAliq, ...) and the child's base, rate and value leaves
TaxGroup(base, rate, value) ==
    [present |-> TRUE, vBC |-> base, rate |-> rate, value |-> value]
NoGroup == [present |-> FALSE, vBC |-> NoLeaf, rate |-> NoLeaf, value |-> NoLeaf]

Groups == {"ICMS", "PIS", "COFINS"}
GroupLeaves == {"vBC", "rate", "value"}

NoImposto == [present |-> FALSE, ICMS |-> NoGroup, PIS |-> NoGroup, COFINS |-> NoGroup]

ImpostoSamples ==
    { NoImposto,
      [present |-> TRUE,
       ICMS |-> TaxGroup(Leaf(10000, 2), Leaf(1800, 2), Leaf(1800, 2)),
       PIS |-> TaxGroup(Leaf(10000, 2), Leaf(165, 2), Leaf(165, 2)),
       COFINS |-> TaxGroup(Leaf(10000, 2), Leaf(760, 2), Leaf(760, 2))],
      [present |-> TRUE,
       ICMS |-> TaxGroup(Leaf(100, 0), Leaf(185, 1), Leaf(18505, 3)),
       PIS |-> NoGroup,
       COFINS |-> TaxGroup(NoLeaf, NoLeaf, Leaf(76, 1))] }

\* prod: present; complete: each of cProd, xProd, NCM, CFOP, uCom, qCom,
\* vUnCom, vProd is there with text; valid: ProductItem accepts them
ProdOk(v) == [present |-> TRUE, complete |-> TRUE, valid |-> TRUE, vProd |-> v]
IncompleteProd ==
    [present |-> TRUE, complete |-> FALSE, valid |-> FALSE, vProd |-> Dec(10000, 2)]
NoProd == [present |-> FALSE, complete |-> FALSE, valid |-> FALSE, vProd |-> Dec(0, 0)]

\* nItem: the attribute as an integer, 0 when it is missing or no integer
\* added: the IBS / CBS / IS elements put under imposto (none in an input)
Det(n, prod, imposto) ==
    [nItem |-> n, prod |-> prod, imposto |-> imposto, added |-> {}]

DetSamples ==
    {Det(n, ProdOk(Dec(10000, 2)), i) : n \in 1..MaxDets, i \in ImpostoSamples}
    \cup {Det(n, NoProd, i) : n \in 1..MaxDets, i \in ImpostoSamples \ {NoImposto}}

DetSeqs == UNION {[1..n -> DetSamples] : n \in 1..MaxDets}

ICMSTot(vProd, vServ, vNF, vICMS, vPIS, vCOFINS, vIPI) ==
    [present |-> TRUE, vProd |-> vProd, vServ |-> vServ, vNF |-> vNF,
     vICMS |-> vICMS, vPIS |-> vPIS, vCOFINS |-> vCOFINS, vIPI |-> vIPI]

TotLeaves == {"vICMS", "vPIS", "vCOFINS", "vIPI"}

TotOk == ICMSTot(Leaf(10000, 2), NoLeaf, Leaf(10000, 2),
                 Leaf(1800, 2), Leaf(165, 2), Leaf(760, 2), Leaf(0, 2))

TotSamples ==
    { TotOk,
      ICMSTot(Leaf(20000, 2), Leaf(500, 1), Leaf(25000, 2),
              Leaf(36, 0), NoLeaf, Leaf(1525, 3), NoLeaf),
      ICMSTot(Leaf(10000, 2), NoLeaf, Leaf(10500, 2),
              Leaf(1800, 2), Leaf(165, 2), Leaf(760, 2), Leaf(0, 2)),
      ICMSTot(Leaf(10000, 2), NoLeaf, Leaf(10001, 2),
              Leaf(1800, 2), Leaf(165, 2), Leaf(760, 2), Leaf(0, 2)),
      ICMSTot(Leaf(10000, 2), Leaf(0, 2), Leaf(99989, 3),
              Leaf(1800, 2), Leaf(165, 2), Leaf(760, 2), Leaf(0, 2)),
      ICMSTot(Leaf(1, 2), NoLeaf, NoLeaf,
              Leaf(1800, 2), Leaf(165, 2), Leaf(760, 2), Leaf(0, 2)),
      ICMSTot(NoLeaf, NoLeaf, NoLeaf,
              Leaf(1800, 2), Leaf(165, 2), Leaf(760, 2), Leaf(0, 2)),
      ICMSTot(Leaf(10000, 2), NoLeaf, NoLeaf,
              Leaf(1800, 2), Leaf(165, 2), Leaf(760, 2), Leaf(0, 2)) }

\* The key as validate_document_key reads it: its length, whether all
\* characters are digits, key[:2] and key[20:22] as numbers.
Key(len, digits, uf, modelo) ==
    [len |-> len, digits |-> digits, uf |-> uf, modelo |-> modelo]

\* ide: whether serie and nNF are there; dhEmi: "absent" | "iso" | "bad";
\* dEmi: "absent" | "date" | "bad"
Ide(serie, nNF, dhEmi, dEmi) ==
    [present |-> TRUE, serie |-> serie, nNF |-> nNF, dhEmi |-> dhEmi, dEmi |-> dEmi]

\* emit / dest.  CNPJ: "absent" | "ok" (14 digits) | "bad"; CPF: "absent" |
\* "ok"; ender: "role" (enderEmit / enderDest) | "generic" (endereco) |
\* "absent"; complete: xNome and the address leaves read are there;
\* valid: CompanyInfo accepts address, UF and CEP
Party(cnpj, cpf, ender, complete, valid) ==
    [present |-> TRUE, CNPJ |-> cnpj, CPF |-> cpf, ender |-> ender,
     complete |-> complete, valid |-> valid]

PartyOk == Party("ok", "absent", "role", TRUE, TRUE)
KeyOk == Key(44, TRUE, 41, 55)
IdeOk == Ide(TRUE, TRUE, "iso", "absent")

\* A tree.  wellformed: etree.fromstring accepts the text; ns: the NF-e
\* namespace is declared and the elements are in it; infNFe, total:
\* the elements are there; sig: the Signature subtree, by its digest.
Tree(dets, tot) ==
    [wellformed |-> TRUE, ns |-> TRUE, infNFe |-> TRUE, versao |-> "4.00",
     Id |-> KeyOk, ide |-> IdeOk, emit |-> PartyOk, dest |-> PartyOk,
     dets |-> dets, total |-> TRUE, ICMSTot |-> tot, sig |-> "digest"]

SampleTree == Tree(<<Det(1, ProdOk(Dec(10000, 2)), NoImposto)>>, TotOk)

\* Inputs the parser turns down, one defect each.
DefectiveTrees ==
    { [SampleTree EXCEPT !.wellformed = FALSE],
      [SampleTree EXCEPT !.ns = FALSE],
      [SampleTree EXCEPT !.versao = "3.10"],
      [SampleTree EXCEPT !.versao = "3.10", !.Id = Key(44, TRUE, 99, 55)],
      [SampleTree EXCEPT !.Id = Key(44, TRUE, 99, 55)],
      [SampleTree EXCEPT !.ide = Ide(TRUE, TRUE, "absent", "absent")],
      [SampleTree EXCEPT !.ide = Ide(TRUE, TRUE, "bad", "absent")],
      [SampleTree EXCEPT !.ide = Ide(FALSE, TRUE, "iso", "absent")],
      [SampleTree EXCEPT !.ide = Ide(TRUE, FALSE, "absent", "date")],
      [SampleTree EXCEPT !.emit = Party("absent", "ok", "role", TRUE, TRUE)],
      [SampleTree EXCEPT !.dest = Party("absent", "ok", "role", TRUE, TRUE)],
      [SampleTree EXCEPT !.dest = Party("absent", "absent", "role", TRUE, TRUE)],
      [SampleTree EXCEPT !.emit = Party("ok", "absent", "absent", TRUE, TRUE)],
      [SampleTree EXCEPT !.dest = Party("ok", "absent", "generic", FALSE, TRUE)],
      [SampleTree EXCEPT !.dets = <<Det(1, IncompleteProd, NoImposto)>>],
      [SampleTree EXCEPT !.dets = <<Det(1, ProdOk(Dec(10000, 2)), NoImposto),
                                    Det(2, IncompleteProd, NoImposto)>>],
      [SampleTree EXCEPT !.ICMSTot.present = FALSE] }

\* Every item list with the plain totals, every totals node with one item.
Trees ==
    {Tree(d, TotOk) : d \in DetSeqs}
    \cup {Tree(d, t) : d \in [1..1 -> DetSamples], t \in TotSamples}
    \cup DefectiveTrees

Text(tree, decl, layout) == [tree |-> tree, decl |-> decl, layout |-> layout]

Texts == {Text(t, TRUE, "compact") : t \in Trees}
         \cup {Text(t, FALSE, "indented") : t \in Trees}

\* etree.fromstring(text.encode('utf-8')): the tree (a fresh one each call)
fromstring(text) == text.tree

\* etree.tostring(root, encoding='unicode', pretty_print=True): the root
\* element alone, no declaration; indentation is added where the tree has
\* no whitespace text, existing whitespace is kept.
tostring(root, text) ==
    Text(root, FALSE, IF text.layout = "compact" THEN "pretty" ELSE text.layout)

\* int(s) of a decimal literal, Decimal(s): the number itself.  Values of
\* different scales are compared at scale 3.
Scaled(d) == d.m * 10 ^ (3 - d.s)
Abs(n) == IF n < 0 THEN 0 - n ELSE n

\* f"{value:.2f}" of a Decimal: two places, rounding half to even
Fmt2(d) ==
    IF d.s <= 2 THEN Dec(d.m * 10 ^ (2 - d.s), 2)
    ELSE LET unit == 10 ^ (d.s - 2)
             q == Abs(d.m) \div unit
             r == Abs(d.m) % unit
             up == 2 * r > unit \/ (2 * r = unit /\ q % 2 = 1)
             n == IF up THEN q + 1 ELSE q
         IN Dec(IF d.m < 0 THEN 0 - n ELSE n, 2)

----------------------------------------------------------------------------
(* XMLValidator, and the XMLParser / XMLGenerator that XMLProcessor uses:  *)
(* the module defines both classes twice, and the later definitions        *)
(* (lines 985-1270) are the ones the names are bound to.                   *)

valid_ufs == {11, 12, 13, 14, 15, 16, 17, 21, 22, 23, 24, 25, 26, 27, 28, 29,
              31, 32, 33, 35, 41, 42, 43, 50, 51, 52, 53}

\* A plausible slip: the version is not looked at.
validate_nfe_structure_any_version(text) ==
    LET root == text.tree IN
    /\ root.wellformed
    /\ root.ns
    /\ root.infNFe
    /\ root.ide.present
    /\ root.emit.present
    /\ root.dest.present
    /\ Len(root.dets) >= 1
    /\ root.total

\* XMLValidator.validate_nfe_structure (lines 40-84), the try block
validate_nfe_structure(text) ==
    LET root == text.tree IN
    /\ root.wellformed
    /\ root.ns
    /\ root.infNFe
    /\ root.ide.present
    /\ root.emit.present
    /\ root.dest.present
    /\ Len(root.dets) >= 1
    /\ root.total
    /\ root.versao = "4.00"

\* A plausible slip: longer keys pass the length test.
validate_document_key_unbounded(key) ==
    /\ key.len >= 44
    /\ key.digits
    /\ key.uf \in valid_ufs
    /\ key.modelo \in {55, 65}

\* XMLValidator.validate_document_key (lines 86-119)
validate_document_key(key) ==
    /\ key.len = 44
    /\ key.digits
    /\ key.uf \in valid_ufs
    /\ key.modelo \in {55, 65}

Ok(v) == [ok |-> TRUE, err |-> "", val |-> v]
Err(e, v) == [ok |-> FALSE, err |-> e, val |-> v]

\* lines 1063-1085
_extract_identification(root) ==
    IF ~root.ide.present THEN Err("Elemento ide não encontrado", 0)
    ELSE IF root.ide.dhEmi = "bad" THEN Err("ValueError", 0)
    ELSE IF root.ide.dhEmi = "absent" /\ root.ide.dEmi = "bad" THEN Err("ValueError", 0)
    ELSE IF root.ide.dhEmi = "absent" /\ root.ide.dEmi = "absent"
         THEN Err("Data de emissão não encontrada", 0)
    ELSE IF ~root.ide.serie \/ ~root.ide.nNF THEN Err("AttributeError", 0)
    ELSE Ok(0)

\* lines 1087-1116; val: the tax id taken
_extract_company_info(party) ==
    IF ~party.present THEN Err("Elemento não encontrado", "")
    ELSE IF party.CNPJ = "absent" THEN Err("CNPJ não encontrado", "")
    ELSE IF party.ender = "absent" THEN Err("Endereço não encontrado", "")
    ELSE IF ~party.complete THEN Err("AttributeError", "")
    ELSE IF party.CNPJ # "ok" \/ ~party.valid THEN Err("ValidationError", "")
    ELSE Ok("CNPJ")

\* lines 1160-1164
_extract_item_tax_details(det) == TaxDetailsNew(<<>>).td

\* lines 1182-1186
_extract_tax_details(root) == TaxDetailsNew(<<>>).td

\* lines 1143-1154
ProductItem(det) ==
    [item_number |-> det.nItem, total_value |-> det.prod.vProd,
     tax_details |-> _extract_item_tax_details(det)]

RECURSIVE ItemsOf(_)
\* lines 1123-1156 on dets without a defect: a det with no prod is passed over
ItemsOf(dets) ==
    IF dets = <<>> THEN <<>>
    ELSE (IF Head(dets).prod.present THEN <<ProductItem(Head(dets))>> ELSE <<>>)
         \o ItemsOf(Tail(dets))

\* lines 1118-1158
_extract_items(root) ==
    IF \E i \in 1..Len(root.dets) : root.dets[i].nItem = 0
    THEN Err("TypeError", <<>>)
    ELSE IF \E i \in 1..Len(root.dets) :
               root.dets[i].prod.present /\ ~root.dets[i].prod.complete
    THEN Err("AttributeError", <<>>)
    ELSE IF \E i \in 1..Len(root.dets) :
               root.dets[i].prod.present /\ ~root.dets[i].prod.valid
    THEN Err("ValidationError", <<>>)
    ELSE Ok(ItemsOf(root.dets))

LeafOrZero(leaf) == IF leaf.present THEN leaf.text ELSE Dec(0, 0)

\* lines 1166-1180
_extract_totals(root) ==
    IF ~root.ICMSTot.present
    THEN Err("Totais não encontrados", [products |-> Dec(0, 0), services |-> Dec(0, 0),
                                        total |-> Dec(0, 0)])
    ELSE Ok([products |-> LeafOrZero(root.ICMSTot.vProd),
             services |-> LeafOrZero(root.ICMSTot.vServ),
             total |-> LeafOrZero(root.ICMSTot.vNF)])

\* The ge=0 constraints of the totals alone.
validate_total_document_unchecked(totals) ==
    /\ totals.products.m >= 0
    /\ totals.services.m >= 0
    /\ totals.total.m >= 0

\* NFEDocument.validate_total_document (fiscal.py lines 196-208), with the
\* ge=0 constraints of the three totals
validate_total_document(totals) ==
    /\ totals.products.m >= 0
    /\ totals.services.m >= 0
    /\ totals.total.m >= 0
    /\ Abs(Scaled(totals.total) - (Scaled(totals.products) + Scaled(totals.services)))
          <= 10

NoUpdated == [present |-> FALSE, text |-> Text(SampleTree, FALSE, "compact")]

NFEDocument(key, items, totals, tax_details, text) ==
    [present |-> TRUE, document_key |-> key, items |-> items,
     total_products |-> totals.products, total_services |-> totals.services,
     total_document |-> totals.total, tax_details |-> tax_details,
     original_xml |-> text, updated_xml |-> NoUpdated]

NoDoc ==
    [present |-> FALSE, document_key |-> KeyOk, items |-> <<>>,
     total_products |-> Dec(0, 0), total_services |-> Dec(0, 0),
     total_document |-> Dec(0, 0), tax_details |-> TaxDetailsDefaults,
     original_xml |-> Text(SampleTree, FALSE, "compact"), updated_xml |-> NoUpdated]

\* XMLParser.parse_nfe_document (lines 993-1061): [ok, err, val]; every
\* exception leaves as XMLProcessingError("Erro ao processar XML: ...")
parse_nfe_document(text) ==
    LET root == fromstring(text)
        ide == _extract_identification(root)
        emitter == _extract_company_info(root.emit)
        recipient == _extract_company_info(root.dest)
        items == _extract_items(root)
        totals == _extract_totals(root)
    IN
    IF ~validate_nfe_structure(text) THEN Err("Estrutura XML inválida para NF-e", NoDoc)
    ELSE IF ~validate_document_key(root.Id) THEN Err("Chave de documento inválida", NoDoc)
    ELSE IF ~ide.ok THEN Err(ide.err, NoDoc)
    ELSE IF ~emitter.ok THEN Err(emitter.err, NoDoc)
    ELSE IF ~recipient.ok THEN Err(recipient.err, NoDoc)
    ELSE IF ~items.ok THEN Err(items.err, NoDoc)
    ELSE IF ~totals.ok THEN Err(totals.err, NoDoc)
    ELSE IF ~validate_total_document(totals.val) THEN Err("ValidationError", NoDoc)
    ELSE Ok(NFEDocument(root.Id, items.val, totals.val, _extract_tax_details(root), text))

\* The class of the exception a failed parse leaves with: the except clause
\* of lines 1055-1061 turns every exception, the parser's own included,
\* into XMLProcessingError, a class with no fields (lines 27-29).
error_type(err) == "XMLProcessingError"

\* The warnings a parse logs: in _extract_items a det with no prod is
\* passed over by a bare continue (lines 1127-1129), nothing is logged for
\* it, and no other step of the parse logs a warning.
parse_warnings(text) == {}

\* next((i for i in items if i.item_number == item_num), None)
HasItem(items, n) == \E i \in 1..Len(items) : items[i].item_number = n
ItemFor(items, n) ==
    items[CHOOSE i \in 1..Len(items) :
             /\ items[i].item_number = n
             /\ \A j \in 1..(i - 1) : items[j].item_number # n]

\* A completion of the TODO of _update_document_totals: the tax totals
\* that are there get the document's value as f"{value:.2f}", a total the
\* document does not carry counting as zero.
_update_document_totals_writing(root, document) ==
    LET td == document.tax_details
        value(name) == IF name \in DOMAIN td THEN td[name] ELSE 0
        written(leaf, name) ==
            IF leaf.present THEN [leaf EXCEPT !.text = Fmt2(Dec(value(name), 2))]
            ELSE leaf
    IN
    IF ~root.ICMSTot.present THEN root
    ELSE [root EXCEPT
            !.ICMSTot.vICMS = written(root.ICMSTot.vICMS, "icms_value"),
            !.ICMSTot.vPIS = written(root.ICMSTot.vPIS, "pis_value"),
            !.ICMSTot.vCOFINS = written(root.ICMSTot.vCOFINS, "cofins_value"),
            !.ICMSTot.vIPI = written(root.ICMSTot.vIPI, "ipi_value")]

\* A plausible completion of the TODO of _add_new_taxes_to_item: a node is
\* inserted for every new tax that is not zero.
_update_items_taxes_inserting(root, items) ==
    [root EXCEPT !.dets =
        [i \in 1..Len(root.dets) |->
            LET det == root.dets[i] IN
            IF ~HasItem(items, det.nItem) THEN det
            ELSE LET td == ItemFor(items, det.nItem).tax_details IN
                 [det EXCEPT !.added =
                     {n \in {"ibs", "cbs", "selective_tax"} : td[n \o "_value"] > 0}]]]

\* XMLGenerator._update_items_taxes (lines 1238-1256): each det with a
\* matching item is logged, nothing is written
_update_items_taxes(root, items) == root

\* XMLGenerator._update_document_totals (lines 1258-1270): logged only
_update_document_totals(root, document) == root

\* XMLGenerator.update_nfe_xml (lines 1202-1236): [ok, err, val]
update_nfe_xml(document) ==
    LET root == fromstring(document.original_xml) IN
    IF ~root.wellformed THEN Err("XMLSyntaxError", document.original_xml)
    ELSE IF \E i \in 1..Len(root.dets) : root.dets[i].nItem = 0
    THEN Err("TypeError", document.original_xml)
    ELSE Ok(tostring(_update_document_totals(
                         _update_items_taxes(root, document.items), document),
                     document.original_xml))

\* The TODO of process_nfe_document carried out: the taxes of each item
\* are computed by the tax service between parsing and generation.
process_nfe_document_recalculating(text) ==
    LET parsed == parse_nfe_document(text)
        taxed == [parsed.val EXCEPT !.items =
                    [i \in 1..Len(parsed.val.items) |->
                       [parsed.val.items[i] EXCEPT !.tax_details =
                          calculate_ibs_cbs(Fmt2(parsed.val.items[i].total_value).m,
                              ReturnResponse,
                              Http(200, ServiceBody(Fmt2(parsed.val.items[i].total_value).m))).tax]]]
        updated == update_nfe_xml(taxed)
    IN
    IF ~parsed.ok THEN parsed
    ELSE IF ~updated.ok THEN Err(updated.err, NoDoc)
    ELSE Ok([taxed EXCEPT !.updated_xml = [present |-> TRUE, text |-> updated.val]])

\* XMLProcessor.process_nfe_document (lines 915-965)
process_nfe_document(text) ==
    LET parsed == parse_nfe_document(text)
        updated == update_nfe_xml(parsed.val)
    IN
    IF ~parsed.ok THEN parsed
    ELSE IF ~updated.ok THEN Err(updated.err, NoDoc)
    ELSE Ok([parsed.val EXCEPT !.updated_xml = [present |-> TRUE, text |-> updated.val]])

\* What a call of update_nfe_xml gave.  kind: "ok" | "error"; type, err and
\* names describe the exception: its class, the cause its message quotes
\* and the document keys the message contains.
NoGen ==
    [kind |-> "none", type |-> "", err |-> "", names |-> {},
     text |-> Text(SampleTree, FALSE, "compact")]

\* raise XMLProcessingError(f"Erro ao atualizar XML: {str(e)}") (line 1236):
\* the message is the prefix and the cause, the key goes to the log only
GenOf(u) ==
    [kind |-> IF u.ok THEN "ok" ELSE "error",
     type |-> IF u.ok THEN "" ELSE "XMLProcessingError",
     err |-> u.err, names |-> {}, text |-> u.val]

\* A caller parses the text.
ParseDocument ==
    LET parsed == parse_nfe_document(xml) IN
    /\ stage = "new"
    /\ stage' = IF parsed.ok THEN "parsed" ELSE "failed"
    /\ doc' = parsed.val
    /\ perr' = parsed.err
    /\ log' = IF parsed.ok THEN parse_warnings(xml) ELSE {}
    /\ UNCHANGED <<xml, gen, nupdates, recalculated>>

\* A caller (the routes) processes the text.
ProcessDocument ==
    LET done == process_nfe_document(xml) IN
    /\ stage = "new"
    /\ stage' = IF done.ok THEN "processed" ELSE "failed"
    /\ doc' = done.val
    /\ perr' = done.err
    /\ gen' = IF done.ok THEN GenOf(Ok(done.val.updated_xml.text))
              ELSE gen
    /\ nupdates' = IF parse_nfe_document(xml).ok THEN 1 ELSE 0
    /\ log' = IF parse_nfe_document(xml).ok THEN parse_warnings(xml) ELSE {}
    /\ UNCHANGED <<xml, recalculated>>

\* The hundredths of a Decimal with at most two places
Cents(d) == Fmt2(d).m

\* A caller computes the new taxes of the items (calculate_document_taxes
\* against the healthy service: two requests an item) and puts them into
\* the document.
Recalculate ==
    /\ doc.present
    /\ ~recalculated
    /\ recalculated' = TRUE
    /\ doc' = [doc EXCEPT !.items =
                 [i \in 1..Len(doc.items) |->
                    [doc.items[i] EXCEPT !.tax_details =
                        calculate_ibs_cbs(Cents(doc.items[i].total_value), ReturnResponse,
                            Http(200, ServiceBody(Cents(doc.items[i].total_value)))).tax]]]
    /\ UNCHANGED <<xml, stage, perr, gen, nupdates, log>>

\* update_nfe_xml had it assigned its result to document.original_xml.
UpdateXml_in_place(store) ==
    LET u == update_nfe_xml(doc) IN
    /\ doc.present
    /\ nupdates < MaxUpdates
    /\ nupdates' = nupdates + 1
    /\ gen' = GenOf(u)
    /\ doc' = IF u.ok
              THEN [doc EXCEPT !.original_xml = u.val,
                               !.updated_xml = IF store THEN [present |-> TRUE, text |-> u.val]
                                               ELSE @]
              ELSE doc
    /\ UNCHANGED <<xml, stage, perr, recalculated, log>>

\* A caller regenerates the XML of the document it holds, and keeps the
\* result in document.updated_xml (store) or elsewhere.
UpdateXml(store) ==
    LET u == update_nfe_xml(doc) IN
    /\ doc.present
    /\ nupdates < MaxUpdates
    /\ nupdates' = nupdates + 1
    /\ gen' = GenOf(u)
    /\ doc' = IF store /\ u.ok
              THEN [doc EXCEPT !.updated_xml = [present |-> TRUE, text |-> u.val]]
              ELSE doc
    /\ UNCHANGED <<xml, stage, perr, recalculated, log>>

XmlIdle ==
    /\ xml = Text(SampleTree, FALSE, "compact")
    /\ stage = "new"
    /\ doc = NoDoc
    /\ perr = ""
    /\ gen = NoGen
    /\ nupdates = 0
    /\ recalculated = FALSE
    /\ log = {}

\* Documents built by a caller: NFEDocument(...) with any text as
\* original_xml, none or one item.
HeldItems ==
    {<<>>,
     <<[item_number |-> 1, total_value |-> Dec(10000, 2),
        tax_details |-> TaxDetailsDefaults]>>}

HeldInit ==
    /\ xml \in Texts
    /\ stage = "held"
    /\ \E items \in HeldItems :
          doc = NFEDocument(KeyOk, items,
                            [products |-> Dec(10000, 2), services |-> Dec(0, 0),
                             total |-> Dec(10000, 2)],
                            TaxDetailsDefaults, xml)
    /\ perr = ""
    /\ gen = NoGen
    /\ nupdates = 0
    /\ recalculated = FALSE
    /\ log = {}

XmlInit ==
    /\ xml \in Texts
    /\ stage = "new"
    /\ doc = NoDoc
    /\ perr = ""
    /\ gen = NoGen
    /\ nupdates = 0
    /\ recalculated = FALSE
    /\ log = {}

----------------------------------------------------------------------------
(* XMLValidator called on its own *)

\* A string is the sequence of its characters: the digits 0..9 are
\* themselves, Letter is a character str.isdigit() turns down.
Digit == 0..9
Letter == 10

\* str.isdigit(): no character but digits, and at least one
isdigit(str) == str # <<>> /\ \A i \in 1..Len(str) : str[i] \in Digit

weights1 == <<5, 4, 3, 2, 9, 8, 7, 6, 5, 4, 3, 2>>
weights2 == <<6, 5, 4, 3, 2, 9, 8, 7, 6, 5, 4, 3, 2>>

RECURSIVE weighted_sum(_, _, _)
\* sum(int(cnpj[i]) * weights[i] for i in range(n))
weighted_sum(str, weights, n) ==
    IF n = 0 THEN 0
    ELSE str[n] * weights[n] + weighted_sum(str, weights, n - 1)

\* A plausible slip: 10 and 11 are kept.
check_digit_unfolded(sum) == 11 - (sum % 11)

\* digit = 11 - (sum % 11); if digit >= 10: digit = 0
check_digit(sum) ==
    LET digit == 11 - (sum % 11) IN
    IF digit >= 10 THEN 0 ELSE digit

\* XMLValidator.validate_cnpj (lines 121-153).  f"{digit1}{digit2}" has
\* two characters only when both digits are below 10.
validate_cnpj(str) ==
    IF str = <<>> \/ Len(str) # 14 \/ ~isdigit(str) THEN FALSE
    ELSE IF \A i \in 1..14 : str[i] = str[1] THEN FALSE
    ELSE LET digit1 == check_digit(weighted_sum(str, weights1, 12))
             digit2 == check_digit(weighted_sum(str, weights2, 13))
         IN /\ digit1 < 10
            /\ digit2 < 10
            /\ <<str[13], str[14]>> = <<digit1, digit2>>

\* The first twelve digits of the ids validate_cnpj is called with.
CnpjRoots ==
    { <<1, 1, 2, 2, 2, 3, 3, 3, 0, 0, 0, 1>>,
      <<0, 0, 0, 0, 0, 0, 0, 9, 0, 0, 0, 1>>,
      <<0, 0, 0, 0, 0, 0, 0, 7, 0, 0, 0, 1>>,
      <<0, 0, 0, 0, 0, 0, 0, 4, 0, 0, 0, 1>> }

SampleCnpj == <<1, 1, 2, 2, 2, 3, 3, 3, 0, 0, 0, 1, 8, 1>>

Cnpjs ==
    {root \o <<a, b>> : root \in CnpjRoots, a \in Digit, b \in Digit}
    \cup {[i \in 1..14 |-> d] : d \in Digit}
    \cup {<<>>, SubSeq(SampleCnpj, 1, 13), SampleCnpj \o <<0>>}
    \cup {[SampleCnpj EXCEPT ![i] = Letter] : i \in 1..14}

\* The keys validate_document_key is called with.
Keys ==
    {Key(len, digits, uf, modelo) :
        len \in {0, 43, 44, 45}, digits \in BOOLEAN,
        uf \in 0..99, modelo \in {0, 55, 56, 65}}

\* The texts validate_nfe_structure is called with: SampleTree with any
\* of the things the method looks at taken away, under each version.
StructureTexts ==
    {Text([SampleTree EXCEPT !.wellformed = w, !.ns = n, !.infNFe = i,
                             !.ide.present = a, !.emit.present = b,
                             !.dest.present = c,
                             !.dets = IF d THEN @ ELSE <<>>,
                             !.total = t, !.versao = v],
          TRUE, "compact") :
        w \in BOOLEAN, n \in BOOLEAN, i \in BOOLEAN, a \in BOOLEAN,
        b \in BOOLEAN, c \in BOOLEAN, d \in BOOLEAN, t \in BOOLEAN,
        v \in {"4.00", "3.10", "absent"}}

\* A plausible slip: the clause names ParseError alone, which is
\* xml.etree's and not the XMLSyntaxError lxml raises.
structure_catches_ParseError(exc) == exc = "ParseError"

\* line 83: except (ParseError, Exception)
structure_catches(exc) == TRUE

\* fn: "cnpj" | "key" | "structure"; done: the call returned or raised
Verdict(fn, done, raised, value) ==
    [fn |-> fn, done |-> done, raised |-> raised, value |-> value]

NoVerdict == Verdict("none", FALSE, FALSE, FALSE)

ValidateCnpj ==
    /\ verdict = Verdict("cnpj", FALSE, FALSE, FALSE)
    /\ verdict' = Verdict("cnpj", TRUE, FALSE, validate_cnpj(cnpj_arg))
    /\ UNCHANGED <<cnpj_arg, key_arg, xml>>

ValidateKey ==
    /\ verdict = Verdict("key", FALSE, FALSE, FALSE)
    /\ verdict' = Verdict("key", TRUE, FALSE, validate_document_key(key_arg))
    /\ UNCHANGED <<cnpj_arg, key_arg, xml>>

\* validate_nfe_structure (lines 40-84): etree.fromstring raises
\* XMLSyntaxError on text that is no XML, inside the try
ValidateStructure ==
    /\ verdict = Verdict("structure", FALSE, FALSE, FALSE)
    /\ verdict' = IF ~fromstring(xml).wellformed /\ ~structure_catches("XMLSyntaxError")
                  THEN Verdict("structure", TRUE, TRUE, FALSE)
                  ELSE Verdict("structure", TRUE, FALSE, validate_nfe_structure(xml))
    /\ UNCHANGED <<cnpj_arg, key_arg, xml>>

ValidatorIdle ==
    /\ cnpj_arg = <<>>
    /\ key_arg = KeyOk
    /\ verdict = NoVerdict

ValidatorInit ==
    \/ /\ cnpj_arg \in Cnpjs
       /\ key_arg = KeyOk
       /\ xml = Text(SampleTree, FALSE, "compact")
       /\ verdict = Verdict("cnpj", FALSE, FALSE, FALSE)
    \/ /\ cnpj_arg = <<>>
       /\ key_arg \in Keys
       /\ xml = Text(SampleTree, FALSE, "compact")
       /\ verdict = Verdict("key", FALSE, FALSE, FALSE)
    \/ /\ cnpj_arg = <<>>
       /\ key_arg = KeyOk
       /\ xml \in StructureTexts
       /\ verdict = Verdict("structure", FALSE, FALSE, FALSE)

----------------------------------------------------------------------------
(* Specifications *)

vars == <<clientVars, serviceVars, xmlVars, validatorVars>>

Init == ClientInit /\ ServiceIdle /\ XmlIdle /\ ValidatorIdle

Next ==
    \/ /\ \E o \in {"ibs_cbs", "selective"}, b \in BaseValues : Call(o, b)
       /\ UNCHANGED <<serviceVars, xmlVars, validatorVars>>
    \/ /\ \E r \in Responses : Respond(r)
       /\ UNCHANGED <<serviceVars, xmlVars, validatorVars>>
    \/ /\ Wake
       /\ UNCHANGED <<serviceVars, xmlVars, validatorVars>>

\* One call of an API method against an arbitrary service, not cancelled.
Spec == Init /\ [][Next]_vars

NextCancel ==
    \/ /\ \E o \in {"ibs_cbs", "selective"}, b \in BaseValues : Call(o, b)
       /\ UNCHANGED <<serviceVars, xmlVars, validatorVars>>
    \/ /\ \E r \in Responses : Respond(r)
       /\ UNCHANGED <<serviceVars, xmlVars, validatorVars>>
    \/ /\ Wake
       /\ UNCHANGED <<serviceVars, xmlVars, validatorVars>>
    \/ /\ Cancel
       /\ UNCHANGED <<serviceVars, xmlVars, validatorVars>>

\* The same call, which its caller may cancel while it is suspended.
SpecCancel == Init /\ [][NextCancel]_vars

InitConcurrent ==
    /\ ClientInit
    /\ retry_attempts >= 1
    /\ client = "none"
    /\ ServiceInit
    /\ XmlIdle
    /\ ValidatorIdle

NextConcurrent ==
    \/ \E p \in Invocations : Enter(p)
    \/ \E p \in Invocations, ok \in BOOLEAN : Recv(p, ok)
    \/ \E p \in Invocations : WakeInvocation(p)

\* Two calculate_document_taxes invocations on one TaxCalculatorService,
\* interleaved at their awaits, against a healthy service.
SpecConcurrent == InitConcurrent /\ [][NextConcurrent]_vars

InitXml ==
    /\ ClientInit
    /\ retry_attempts = MaxRetry
    /\ client = "none"
    /\ ServiceIdle
    /\ XmlInit
    /\ ValidatorIdle

NextXml ==
    \/ /\ ParseDocument
       /\ UNCHANGED <<clientVars, serviceVars, validatorVars>>
    \/ /\ ProcessDocument
       /\ UNCHANGED <<clientVars, serviceVars, validatorVars>>
    \/ /\ Recalculate
       /\ sent' = sent + 2 * Len(doc.items)
       /\ UNCHANGED <<retry_attempts, client, op, base_value, pc, attempt,
                      last_exception, sleeps, responses, inner, result, cancelled>>
       /\ UNCHANGED <<serviceVars, validatorVars>>
    \/ /\ \E store \in BOOLEAN : UpdateXml(store)
       /\ UNCHANGED <<clientVars, serviceVars, validatorVars>>

InitGen ==
    /\ ClientInit
    /\ retry_attempts = MaxRetry
    /\ client = "none"
    /\ ServiceIdle
    /\ HeldInit
    /\ ValidatorIdle

NextGen ==
    \/ /\ Recalculate
       /\ sent' = sent + 2 * Len(doc.items)
       /\ UNCHANGED <<retry_attempts, client, op, base_value, pc, attempt,
                      last_exception, sleeps, responses, inner, result, cancelled>>
       /\ UNCHANGED <<serviceVars, validatorVars>>
    \/ /\ \E store \in BOOLEAN : UpdateXml(store)
       /\ UNCHANGED <<clientVars, serviceVars, validatorVars>>

\* A Document built by its holder, whose original_xml need not be an
\* NF-e the parser accepts, regenerated any number of times.
SpecGen == InitGen /\ [][NextGen]_vars

InitValidators ==
    /\ ClientInit
    /\ retry_attempts = MaxRetry
    /\ client = "none"
    /\ ServiceIdle
    /\ stage = "new"
    /\ doc = NoDoc
    /\ perr = ""
    /\ gen = NoGen
    /\ nupdates = 0
    /\ recalculated = FALSE
    /\ log = {}
    /\ ValidatorInit

NextValidators ==
    \/ /\ ValidateCnpj
       /\ UNCHANGED <<clientVars, serviceVars, stage, doc, perr, gen, nupdates, recalculated,
                      log>>
    \/ /\ ValidateKey
       /\ UNCHANGED <<clientVars, serviceVars, stage, doc, perr, gen, nupdates, recalculated,
                      log>>
    \/ /\ ValidateStructure
       /\ UNCHANGED <<clientVars, serviceVars, stage, doc, perr, gen, nupdates, recalculated,
                      log>>

\* One call of a static method of XMLValidator.
SpecValidators == InitValidators /\ [][NextValidators]_vars

\* One document handed to the parser or the processor, then regenerated
\* by its holder, with or without newly computed taxes in it.
SpecXml == InitXml /\ [][NextXml]_vars

----------------------------------------------------------------------------
(* Claims about the retry loop and the two API methods *)

Done == pc \in {"returned", "raised"}

LastResponse == responses[Len(responses)]

\* The failures the specification calls retryable.
RetryableFailure(r) ==
    \/ r.kind \in {"network", "timeout"}
    \/ r.kind = "http" /\ (r.status = 429 \/ (500 <= r.status /\ r.status <= 599))

\* 4xx other than 429
Terminal4xx(r) ==
    r.kind = "http" /\ 400 <= r.status /\ r.status <= 499 /\ r.status # 429

Is2xx(r) == r.kind = "http" /\ 200 <= r.status /\ r.status <= 299

\* k-1 retryable failures, then a 2xx at attempt k
FailuresThenSuccess ==
    /\ responses # <<>>
    /\ Is2xx(LastResponse)
    /\ \A i \in 1..(Len(responses) - 1) : RetryableFailure(responses[i])

\* The rate or value a payload carries under a key (0 when it has none).
Carried(body, key) == body.f[key].v

ResultCarriesPayload(body) ==
    /\ result.kind = "return"
    /\ result.tax.ibs_rate = Carried(body, "aliquotaIBS")
    /\ result.tax.ibs_value = Carried(body, "valorIBS")
    /\ result.tax.cbs_rate = Carried(body, "aliquotaCBS")
    /\ result.tax.cbs_value = Carried(body, "valorCBS")

\* A payload TaxDetails accepts: a JSON object whose four keys, where
\* present, are numbers, none negative and no rate above 100.
IbsCbsPayloadAccepted(body) ==
    /\ body.json
    /\ \A key \in {"aliquotaIBS", "valorIBS", "aliquotaCBS", "valorCBS"} :
          body.f[key].k # "nan" /\ body.f[key].v >= 0
    /\ body.f["aliquotaIBS"].v <= 10000
    /\ body.f["aliquotaCBS"].v <= 10000

\* C1 as stated: after k-1 retryable failures and a 2xx at attempt k <= N,
\* _make_request_with_retry has returned that response after exactly k
\* requests and calculate_ibs_cbs returns the payload's rates and values,
\* whatever the 2xx payload is.
C1_AsStated ==
    FailuresThenSuccess =>
        /\ inner = ReturnResponse
        /\ sent = Len(responses)
        /\ op = "ibs_cbs" => ResultCarriesPayload(LastResponse.body)

\* C1 amended: after k-1 retryable failures and a 2xx at attempt k <= N,
\* _make_request_with_retry has returned that response after exactly k
\* requests; calculate_ibs_cbs returns the payload's rates and values
\* (an absent key as 0) when the payload is a JSON object of non-negative
\* numbers with no rate above 100, and raises GovernmentAPIError otherwise.
C1_RetryThenSuccess ==
    FailuresThenSuccess =>
        /\ inner = ReturnResponse
        /\ sent = Len(responses)
        /\ Len(responses) <= retry_attempts
        /\ op = "ibs_cbs" =>
              IF IbsCbsPayloadAccepted(LastResponse.body)
              THEN /\ pc = "returned"
                   /\ ResultCarriesPayload(LastResponse.body)
                   /\ result.tax.ibs_base = base_value
                   /\ result.tax.cbs_base = base_value
              ELSE /\ pc = "raised"
                   /\ result.exc = "GovernmentAPIError"

C1_Witness ==
    /\ op = "ibs_cbs"
    /\ pc = "returned"
    /\ Len(responses) = 2
    /\ responses[1] = Http(500, NoBody)
    /\ Is2xx(responses[2])
    /\ sent = 2
    /\ result.tax.cbs_value = 777

\* C2: a 4xx status other than 429 at any attempt ends the request: it is
\* the last request sent, no sleep follows it, _make_request_with_retry
\* re-raises the status error and calculate_ibs_cbs surfaces it as a
\* GovernmentAPIError naming the status; a 429 or 5xx with attempts left is
\* followed by a backoff sleep and the next request.
C2_Terminal4xx ==
    \A i \in 1..Len(responses) :
        /\ Terminal4xx(responses[i]) =>
              /\ i = Len(responses)
              /\ sent = i
              /\ Len(sleeps) = i - 1
              /\ Done
              /\ inner.kind = "raise" /\ inner.exc = "HTTPStatusError"
              /\ op = "ibs_cbs" =>
                    /\ pc = "raised"
                    /\ result.exc = "GovernmentAPIError"
                    /\ result.last = [exc |-> "HTTPStatusError",
                                      status |-> responses[i].status]
        /\ (/\ responses[i].kind = "http"
            /\ (responses[i].status = 429 \/ responses[i].status >= 500)
            /\ i < retry_attempts) =>
              /\ Len(sleeps) >= i
              /\ sent > i \/ pc = "sleeping"

C2_Witness ==
    /\ op = "ibs_cbs"
    /\ pc = "raised"
    /\ Len(responses) = 2
    /\ responses[1] = Http(429, NoBody)
    /\ responses[2] = Http(404, NoBody)
    /\ result.last.status = 404

\* Every one of the N attempts failed with a retryable failure.
AllAttemptsFailed ==
    /\ retry_attempts >= 1
    /\ Len(responses) = retry_attempts
    /\ \A i \in 1..Len(responses) : RetryableFailure(responses[i])

\* C3: when all N >= 1 attempts fail with a retryable failure, exactly N
\* requests were sent and the one GovernmentAPIError the caller gets carries
\* the failure of attempt N.
C3_Exhausted ==
    AllAttemptsFailed =>
        /\ sent = retry_attempts
        /\ Done
        /\ inner = Raise("GovernmentAPIError", "exhausted", FailureOf(LastResponse))
        /\ op = "ibs_cbs" =>
              /\ pc = "raised"
              /\ result.exc = "GovernmentAPIError"
              /\ result.last = FailureOf(LastResponse)

C3_Witness ==
    /\ op = "ibs_cbs"
    /\ pc = "raised"
    /\ retry_attempts = 3
    /\ responses = <<Http(500, NoBody), Timeout, Http(503, NoBody)>>
    /\ result.last.status = 503

\* C4: the j-th sleep follows attempt j-1 and lasts 2^(j-1); there is one
\* sleep between two consecutive requests and none anywhere else: none
\* before the first request, none after a success, a terminal 4xx or the
\* last attempt of the budget.
C4_Backoff ==
    /\ \A j \in 1..Len(sleeps) : sleeps[j] = 2 ^ (j - 1)
    /\ Len(sleeps) = IF pc = "sleeping" THEN sent
                     ELSE IF sent = 0 THEN 0 ELSE sent - 1
    /\ pc = "sleeping" =>
          /\ sent = Len(responses)
          /\ sent < retry_attempts
          /\ ~ Is2xx(LastResponse)
          /\ ~ Terminal4xx(LastResponse)

C4_Witness ==
    /\ pc = "raised"
    /\ retry_attempts = 3
    /\ sent = 3
    /\ sleeps = <<1, 2>>
    /\ inner.why = "exhausted"

\* The selective-tax value a 2xx response carries: the number under
\* valorImpostoSeletivo of a JSON object, 0 when the key is absent.
SelectivePayloadOk(r) ==
    Is2xx(r) /\ r.body.json /\ r.body.f["valorImpostoSeletivo"].k # "nan"

\* C5: calculate_selective_tax always returns: the payload's value on a 2xx
\* response, and 0 on every failure (network error, timeout, exhausted
\* budget, terminal 4xx, malformed body, client not initialised).
C5_SelectiveFallback ==
    (op = "selective" /\ pc # "await_response" /\ pc # "sleeping") =>
        /\ pc = "returned"
        /\ result.kind = "return"
        /\ result.value =
              IF responses # <<>> /\ SelectivePayloadOk(LastResponse)
              THEN Carried(LastResponse.body, "valorImpostoSeletivo")
              ELSE 0

C5_Witness ==
    /\ op = "selective"
    /\ pc = "returned"
    /\ retry_attempts = 2
    /\ responses = <<Timeout, Http(503, NoBody)>>
    /\ inner.kind = "raise"
    /\ result.value = 0

\* C7: a call cancelled while suspended ends as a GovernmentAPIError.
C7_CancelSurfacesAsIntegrationError ==
    cancelled => (pc = "raised" /\ result.exc = "GovernmentAPIError")

----------------------------------------------------------------------------
(* Claims about concurrent invocations *)

\* What calculate_document_taxes returns for item i when it runs alone
\* against the healthy service.
AloneItemTaxes(item) ==
    [TaxDetailsDefaults EXCEPT
        !.ibs_base = item.total_value,
        !.ibs_rate = 1000,
        !.ibs_value = (item.total_value * 1000) \div 10000,
        !.cbs_base = item.total_value,
        !.cbs_rate = 900,
        !.cbs_value = (item.total_value * 900) \div 10000,
        !.selective_tax_value = item.total_value \div 100]

AloneTaxes(items) == [i \in 1..Len(items) |-> AloneItemTaxes(items[i])]

Finished(p) == procs[p].pc \in {"done", "failed"}
Running(p) == procs[p].pc \notin {"start", "done", "failed"}

\* C6: two invocations on one TaxCalculatorService do not interfere: each
\* ends with the breakdowns it returns when run alone, and while one is
\* running self._client is the AsyncClient it opened, and open.
C6_ConcurrentInvocationsIndependent ==
    \A p \in Invocations :
        /\ Finished(p) =>
              /\ procs[p].pc = "done"
              /\ procs[p].item_taxes = AloneTaxes(docs[p])
        /\ Running(p) => (svc_client = p /\ p \notin closed)

\* An invocation that runs with no other in progress returns AloneTaxes.
C6_AloneReached ==
    /\ procs[1].pc = "done"
    /\ procs[2].pc = "start"
    /\ procs[1].item_taxes = AloneTaxes(docs[1])
    /\ Len(docs[1]) = 2


----------------------------------------------------------------------------
(* Claims about the XML round trip, checked under SpecXml *)

\* The tax leaves of a tree: per item node the ICMS / PIS / COFINS groups,
\* and the tax totals of ICMSTot.
ItemTaxLeaves(root) ==
    [i \in 1..Len(root.dets) |-> [g \in Groups |-> root.dets[i].imposto[g]]]
TotalTaxLeaves(root) == [l \in TotLeaves |-> root.ICMSTot[l]]

\* update_nfe_xml returned for the document held
Updated == doc.present /\ gen.kind = "ok"

\* C8: for a valid document, parse_nfe_document followed by update_nfe_xml
\* on the unmodified Document returns XML whose tax values (per-item ICMS,
\* PIS, COFINS base, rate and value, and the ICMSTot tax totals) are those
\* of the input, and whose tree is the input's: the texts differ in
\* declaration and layout only.
C8_ParseUpdateKeepsTaxValues ==
    (doc.present /\ ~recalculated) =>
        /\ update_nfe_xml(doc).ok
        /\ LET out == update_nfe_xml(doc).val IN
           /\ ItemTaxLeaves(fromstring(out)) = ItemTaxLeaves(fromstring(xml))
           /\ TotalTaxLeaves(fromstring(out)) = TotalTaxLeaves(fromstring(xml))
           /\ fromstring(out) = fromstring(xml)
        /\ gen.kind # "none" =>
              /\ gen.kind = "ok"
              /\ gen.text = update_nfe_xml(doc).val

\* The round trip was made on a document whose tax leaves are not all
\* written with two places, and the text returned is not the text given.
C8_Witness ==
    /\ stage = "parsed"
    /\ Updated
    /\ ~recalculated
    /\ gen.text # xml
    /\ \E i \in 1..Len(xml.tree.dets) :
          /\ xml.tree.dets[i].imposto.present
          /\ xml.tree.dets[i].imposto.ICMS.rate.text.s # 2
          /\ HasItem(doc.items, xml.tree.dets[i].nItem)

\* A leaf holds the named value of a TaxDetails, written with two places.
Holds(leaf, td, name) ==
    /\ name \in DOMAIN td
    /\ leaf.text = Fmt2(Dec(td[name], 2))

GroupAttr == [ICMS |-> "icms", PIS |-> "pis", COFINS |-> "cofins"]
LeafAttr == [vBC |-> "_base", rate |-> "_rate", value |-> "_value"]
TotAttr == [vICMS |-> "icms_value", vPIS |-> "pis_value",
            vCOFINS |-> "cofins_value", vIPI |-> "ipi_value"]

\* C9: after update_nfe_xml(document), the ICMS / PIS / COFINS base, rate
\* and value leaves that exist under an item node whose nItem is the
\* item_number of a LineItem hold that item's values, the ICMSTot vICMS,
\* vPIS, vCOFINS and vIPI leaves hold the document's values, and each is
\* written with exactly two decimal places.
C9_UpdateWritesDocumentValues ==
    Updated =>
        LET out == fromstring(gen.text) IN
        /\ \A i \in 1..Len(out.dets) : \A g \in Groups : \A l \in GroupLeaves :
              (/\ HasItem(doc.items, out.dets[i].nItem)
               /\ out.dets[i].imposto.present
               /\ out.dets[i].imposto[g].present
               /\ out.dets[i].imposto[g][l].present)
              => Holds(out.dets[i].imposto[g][l],
                       ItemFor(doc.items, out.dets[i].nItem).tax_details,
                       GroupAttr[g] \o LeafAttr[l])
        /\ \A l \in TotLeaves :
              (out.ICMSTot.present /\ out.ICMSTot[l].present)
              => Holds(out.ICMSTot[l], doc.tax_details, TotAttr[l])

\* The tree with the text of every leaf that update_nfe_xml may write
\* blanked: the tax leaves of item nodes with a LineItem, the tax totals.
Blank(leaf) == [leaf EXCEPT !.text = Dec(0, 0)]
BlankGroup(group) ==
    [group EXCEPT !.vBC = Blank(@), !.rate = Blank(@), !.value = Blank(@)]
Masked(root, items) ==
    [root EXCEPT
       !.dets = [i \in 1..Len(root.dets) |->
                    IF HasItem(items, root.dets[i].nItem)
                    THEN [root.dets[i] EXCEPT !.imposto.ICMS = BlankGroup(@),
                                              !.imposto.PIS = BlankGroup(@),
                                              !.imposto.COFINS = BlankGroup(@)]
                    ELSE root.dets[i]],
       !.ICMSTot.vICMS = Blank(@), !.ICMSTot.vPIS = Blank(@),
       !.ICMSTot.vCOFINS = Blank(@), !.ICMSTot.vIPI = Blank(@)]

\* C10: update_nfe_xml leaves the tree as it was but for the text of the
\* ICMS / PIS / COFINS leaves of item nodes with a matching LineItem and
\* of the tax totals: item nodes with no LineItem, the other leaves and
\* subtrees (the signature among them) and the nodes and their order are
\* the original's, and no IBS, CBS or Selective Tax node is inserted,
\* whatever the document's values.
C10_UpdateFrame ==
    Updated =>
        LET out == fromstring(gen.text)
            in == fromstring(doc.original_xml)
        IN
        /\ Masked(out, doc.items) = Masked(in, doc.items)
        /\ Len(out.dets) = Len(in.dets)
        /\ \A i \in 1..Len(out.dets) :
              /\ out.dets[i].added = {}
              /\ ~HasItem(doc.items, out.dets[i].nItem) => out.dets[i] = in.dets[i]
        /\ out.sig = in.sig

\* The XML was regenerated from a document holding non-zero IBS and CBS
\* values, for a tree with an item node that has no LineItem.
C10_Witness ==
    /\ Updated
    /\ recalculated
    /\ \E i \in 1..Len(doc.items) :
          /\ doc.items[i].tax_details.ibs_value > 0
          /\ doc.items[i].tax_details.cbs_value > 0
    /\ \E i \in 1..Len(xml.tree.dets) :
          /\ ~HasItem(doc.items, xml.tree.dets[i].nItem)
          /\ xml.tree.dets[i].imposto.present

\* C11: update_nfe_xml starts from document.original_xml and leaves it and
\* every other field of the Document as they were (what the caller puts
\* into updated_xml aside); for the same tax fields it returns the same
\* XML on every call, however many calls were made before and whatever
\* updated_xml holds.
C11_UpdateIdempotent ==
    [][\A store \in BOOLEAN :
          UpdateXml(store) =>
             /\ [doc' EXCEPT !.updated_xml = doc.updated_xml] = doc
             /\ doc'.original_xml = xml
             /\ \A held \in {NoUpdated, doc.updated_xml, doc'.updated_xml,
                             [present |-> TRUE, text |-> doc.original_xml]} :
                   gen' = GenOf(update_nfe_xml([doc EXCEPT !.updated_xml = held]))
             /\ (gen.kind = "ok" /\ ~recalculated) => gen'.text = gen.text
             /\ gen'.kind = "ok" => fromstring(gen'.text) = fromstring(doc.original_xml)]_vars

\* The XML was regenerated a second time for a Document holding an earlier
\* result that is not its original text.
C11_Witness ==
    /\ nupdates >= 2
    /\ gen.kind = "ok"
    /\ doc.updated_xml.present
    /\ doc.updated_xml.text # doc.original_xml
    /\ gen.text = doc.updated_xml.text

\* The tax figures of a Document: those of its items and its own.
TaxFigures(document) ==
    <<[i \in 1..Len(document.items) |-> document.items[i].tax_details],
      document.tax_details>>

\* C12: process_nfe_document sends no request to the tax service, whatever
\* the input; the Document it returns has the tax figures parse_nfe_document
\* gives, the input text as original_xml and, as updated_xml, the XML
\* generated from the Document just parsed.
C12_ProcessWithoutTaxService ==
    /\ (stage \in {"processed", "failed"} /\ ~recalculated) =>
          /\ sent = 0
          /\ pc = "idle"
          /\ \A p \in Invocations : procs[p] = ProcInit
    /\ stage = "processed" /\ ~recalculated =>
          /\ parse_nfe_document(xml).ok
          /\ TaxFigures(doc) = TaxFigures(parse_nfe_document(xml).val)
          /\ doc.original_xml = xml
          /\ doc.updated_xml.present
          /\ doc.updated_xml.text = update_nfe_xml(parse_nfe_document(xml).val).val
    /\ stage = "failed" => ~doc.present /\ ~parse_nfe_document(xml).ok

\* A document with items was processed.
C12_Witness ==
    /\ stage = "processed"
    /\ ~recalculated
    /\ Len(doc.items) >= 1
    /\ doc.updated_xml.present
    /\ doc.updated_xml.text # doc.original_xml

\* The distance of a total from the sum of products and services, in
\* thousandths.
TotalGap(total, products, services) ==
    Abs(Scaled(total) - (Scaled(products) + Scaled(services)))

\* C14: every Document returned by parse_nfe_document, and so by
\* process_nfe_document, has |total_document - (total_products +
\* total_services)| <= 0.01; an input whose totals are further apart gives
\* a parse error and no Document.
C14_TotalsAgree ==
    /\ doc.present =>
          TotalGap(doc.total_document, doc.total_products, doc.total_services) <= 10
    /\ (/\ stage # "new"
        /\ xml.tree.ICMSTot.present
        /\ TotalGap(LeafOrZero(xml.tree.ICMSTot.vNF), LeafOrZero(xml.tree.ICMSTot.vProd),
                    LeafOrZero(xml.tree.ICMSTot.vServ)) > 10)
       => (stage = "failed" /\ ~doc.present /\ perr # "")

\* A Document was returned whose total is one cent off the sum.
C14_Witness ==
    /\ stage \in {"parsed", "processed"}
    /\ doc.present
    /\ TotalGap(doc.total_document, doc.total_products, doc.total_services) = 10

----------------------------------------------------------------------------
(* Claims about failing generation, checked under SpecGen *)

\* C13: when update_nfe_xml fails it raises a typed generation error whose
\* message names the document key, and nothing of the attempt is kept:
\* original_xml and updated_xml of the Document are as before the call.
C13_UpdateFailureNamesKey ==
    gen.kind = "error" =>
        /\ gen.type = "XMLProcessingError"
        /\ doc.document_key \in gen.names
        /\ doc.original_xml = xml
        /\ ~doc.updated_xml.present

\* The part of C13 about the Document: a failed call leaves every field as
\* it was, and the next call starts from the same original_xml.
C13_FailureKeepsDocument ==
    [][\A store \in BOOLEAN :
          (UpdateXml(store) /\ gen'.kind = "error") =>
             /\ doc' = doc
             /\ update_nfe_xml(doc') = update_nfe_xml(doc)]_vars

----------------------------------------------------------------------------
(* Claims about the TaxDetails handed to callers *)

\* round(B * R / 100, 2) in hundredths, for B in hundredths and R in
\* hundredths of a percent, rounding half to even
RoundedTax(base, rate) ==
    LET n == base * rate
        q == n \div 10000
        r == n % 10000
    IN IF 2 * r > 10000 \/ (2 * r = 10000 /\ q % 2 = 1) THEN q + 1 ELSE q

TripleAgrees(td, tax) ==
    td[tax \o "_value"] = RoundedTax(td[tax \o "_base"], td[tax \o "_rate"])

\* C15: in every TaxDetails computed, calculate_ibs_cbs's included whatever
\* the response carries, each of the IBS, CBS and Selective Tax values is
\* round(base * rate / 100, 2) of its base and rate.
C15_ValueIsBaseTimesRate ==
    (pc = "returned" /\ op = "ibs_cbs") =>
        \A tax \in {"ibs", "cbs", "selective_tax"} : TripleAgrees(result.tax, tax)

\* The sum of the tax values a TaxDetails holds.
ValueSum(td) == td.ibs_value + td.cbs_value + td.selective_tax_value

\* C16: in every TaxDetails handed to a caller by calculate_document_taxes,
\* the breakdown of each item and the aggregate, and in the document-level
\* breakdown a parse gives, total_federal_taxes is the sum of the tax
\* values the TaxDetails holds.
C16_TotalIsSumOfValues ==
    /\ \A p \in Invocations :
          procs[p].pc = "done" =>
             /\ procs[p].total_taxes.total_federal_taxes = ValueSum(procs[p].total_taxes)
             /\ \A i \in 1..Len(procs[p].item_taxes) :
                   procs[p].item_taxes[i].total_federal_taxes
                      = ValueSum(procs[p].item_taxes[i])
    /\ (doc.present /\ ~recalculated) =>
          doc.tax_details.total_federal_taxes = ValueSum(doc.tax_details)

RECURSIVE SumOf(_, _)
\* The sum of one field over a sequence of TaxDetails
SumOf(tds, field) ==
    IF tds = <<>> THEN 0 ELSE Head(tds)[field] + SumOf(Tail(tds), field)

\* C17: a successful calculate_document_taxes returns one breakdown per
\* item, in the order of the items, each from the IBS/CBS and Selective
\* Tax calls made for that item; the aggregate's IBS, CBS and Selective Tax
\* values are the sums of the items' values, and its total_federal_taxes
\* the sum of the three.
C17_OneBreakdownPerItem ==
    \A p \in Invocations :
        procs[p].pc = "done" =>
            LET taxes == procs[p].item_taxes
                total == procs[p].total_taxes
            IN
            /\ Len(taxes) = Len(docs[p])
            /\ \A i \in 1..Len(taxes) :
                  LET own == AloneItemTaxes(docs[p][i]) IN
                  /\ taxes[i].ibs_base = docs[p][i].total_value
                  /\ taxes[i].cbs_base = docs[p][i].total_value
                  /\ taxes[i].ibs_rate = own.ibs_rate
                  /\ taxes[i].ibs_value = own.ibs_value
                  /\ taxes[i].cbs_rate = own.cbs_rate
                  /\ taxes[i].cbs_value = own.cbs_value
                  /\ taxes[i].selective_tax_value \in {own.selective_tax_value, 0}
            /\ total.ibs_value = SumOf(taxes, "ibs_value")
            /\ total.cbs_value = SumOf(taxes, "cbs_value")
            /\ total.selective_tax_value = SumOf(taxes, "selective_tax_value")
            /\ total.total_federal_taxes
                  = total.ibs_value + total.cbs_value + total.selective_tax_value

\* An invocation for two items of different value succeeded.
C17_Witness ==
    \E p \in Invocations :
        /\ procs[p].pc = "done"
        /\ Len(docs[p]) = 2
        /\ docs[p][1].total_value # docs[p][2].total_value
        /\ Len(procs[p].item_taxes) = 2
        /\ procs[p].total_taxes.total_federal_taxes > 0

----------------------------------------------------------------------------
(* Claims about XMLValidator, checked under SpecValidators *)

\* The check digit of the official rule: 0 for a remainder below 2, 11
\* less the remainder otherwise.
Modulo11Digit(str, weights) ==
    LET rem == weighted_sum(str, weights, Len(weights)) % 11 IN
    IF rem < 2 THEN 0 ELSE 11 - rem

CheckDigitsMatch(str) ==
    /\ str[13] = Modulo11Digit(str, weights1)
    /\ str[14] = Modulo11Digit(str, weights2)

\* C18: validate_cnpj(id) is true exactly when id is 14 digits, is not one
\* digit fourteen times, and ends in the two modulo-11 check digits of its
\* first 12 and first 13 digits under the weights 5,4,3,2,9,...,2 and
\* 6,5,4,3,2,9,...,2, a digit of 10 or more counting as 0.
C18_CnpjCheckDigits ==
    (verdict.fn = "cnpj" /\ verdict.done) =>
        /\ ~verdict.raised
        /\ verdict.value <=>
              /\ Len(cnpj_arg) = 14
              /\ \A i \in 1..Len(cnpj_arg) : cnpj_arg[i] \in Digit
              /\ \E i \in 1..14 : cnpj_arg[i] # cnpj_arg[1]
              /\ CheckDigitsMatch(cnpj_arg)

\* An id was accepted whose check digits both come from a remainder below
\* two.
C18_Witness ==
    /\ verdict.fn = "cnpj"
    /\ verdict.done
    /\ verdict.value
    /\ weighted_sum(cnpj_arg, weights1, 12) % 11 = 1
    /\ weighted_sum(cnpj_arg, weights2, 13) % 11 = 0

\* The state codes of the federative units.
StateCodes == (11..17) \cup (21..29) \cup {31, 32, 33, 35} \cup {41, 42, 43} \cup (50..53)

\* C19: validate_document_key(key) is true exactly when the key has 44
\* characters, all digits, its first two digits are a state code and its
\* characters 21-22 are 55 or 65; shorter and longer keys are turned down,
\* a key of state 41 and model 55 is accepted.
C19_DocumentKey ==
    (verdict.fn = "key" /\ verdict.done) =>
        /\ ~verdict.raised
        /\ verdict.value <=>
              /\ key_arg.len = 44
              /\ key_arg.digits
              /\ key_arg.uf \in StateCodes
              /\ key_arg.modelo \in {55, 65}
        /\ key_arg.len # 44 => ~verdict.value
        /\ key_arg = Key(44, TRUE, 41, 55) => verdict.value

\* The key of state 41 and model 55 was accepted.
C19_Witness ==
    /\ verdict.fn = "key"
    /\ verdict.done
    /\ verdict.value
    /\ key_arg = Key(44, TRUE, 41, 55)

\* C20: validate_nfe_structure(xml) is true exactly when the namespace
\* declared is the NF-e one, infNFe, ide, emit, dest, at least one det and
\* total are all there, and the version declared is 4.00; it returns a
\* boolean for every text, one that is no XML included, and never raises.
C20_StructureVerdict ==
    (verdict.fn = "structure" /\ verdict.done) =>
        LET root == xml.tree IN
        /\ ~verdict.raised
        /\ verdict.value <=>
              /\ root.wellformed
              /\ root.ns
              /\ root.infNFe /\ root.ide.present /\ root.emit.present
              /\ root.dest.present /\ root.dets # <<>> /\ root.total
              /\ root.versao \in {"4.00"}

\* The method was called on a text that is no XML, and returned.
C20_Witness ==
    /\ verdict.fn = "structure"
    /\ verdict.done
    /\ ~xml.tree.wellformed
    /\ ~verdict.value

----------------------------------------------------------------------------
(* Claims about what the parser accepts, checked under SpecXml *)

\* What the structural validation asks of a text.
StructureValid(text) ==
    /\ text.tree.wellformed
    /\ text.tree.ns
    /\ text.tree.infNFe /\ text.tree.ide.present /\ text.tree.emit.present
    /\ text.tree.dest.present /\ text.tree.dets # <<>> /\ text.tree.total
    /\ text.tree.versao = "4.00"

\* C21: parse_nfe_document returns a Document only for a text that passes
\* validate_nfe_structure; a text that does not ends the parse with the
\* structural error, before anything is extracted, no Document is
\* produced and process_nfe_document generates nothing.
C21_StructureFirst ==
    /\ doc.present => StructureValid(xml)
    /\ (stage # "new" /\ ~StructureValid(xml)) =>
          /\ stage = "failed"
          /\ ~doc.present
          /\ perr = "Estrutura XML inválida para NF-e"
          /\ gen.kind = "none"
          /\ nupdates = 0

\* A text of another version, whose key is malformed as well, was turned
\* down.
C21_Witness ==
    /\ stage = "failed"
    /\ xml.tree.wellformed
    /\ xml.tree.versao # "4.00"
    /\ ~validate_document_key(xml.tree.Id)
    /\ perr = "Estrutura XML inválida para NF-e"

\* The item nodes of a tree that have a product subtree, in document order.
RECURSIVE WithProduct(_)
WithProduct(dets) ==
    IF dets = <<>> THEN <<>>
    ELSE (IF Head(dets).prod.present THEN <<Head(dets)>> ELSE <<>>)
         \o WithProduct(Tail(dets))

MissingProduct(root) ==
    {i \in 1..Len(root.dets) : ~root.dets[i].prod.present}

\* C22: parsing a document in which one item node has no product subtree
\* does not fail; the Document holds the LineItems of the other item
\* nodes, in document order, and a warning is recorded for the item
\* passed over.
C22_SkippedItemWarned ==
    (/\ stage # "new"
     /\ StructureValid(xml)
     /\ Cardinality(MissingProduct(xml.tree)) = 1
     /\ xml.tree.ICMSTot = TotOk) =>
        /\ doc.present
        /\ Len(doc.items) = Len(WithProduct(xml.tree.dets))
        /\ \A i \in 1..Len(doc.items) :
              /\ doc.items[i].item_number = WithProduct(xml.tree.dets)[i].nItem
              /\ doc.items[i].total_value = WithProduct(xml.tree.dets)[i].prod.vProd
        /\ \A i \in MissingProduct(xml.tree) : xml.tree.dets[i].nItem \in log

\* The required fields a tree lacks: serie, nNF, the issue date (dhEmi and
\* dEmi both absent), a party's tax id (neither CNPJ nor CPF), address or
\* name and address leaves, the leaves of an item's prod.
MissingOfParty(party) ==
    (IF party.CNPJ = "absent" /\ party.CPF = "absent" THEN {"CNPJ"} ELSE {})
    \cup (IF party.ender = "absent" THEN {"ender"} ELSE {})
    \cup (IF ~party.complete THEN {"xNome"} ELSE {})

MissingRequired(root) ==
    (IF ~root.ide.serie THEN {"serie"} ELSE {})
    \cup (IF ~root.ide.nNF THEN {"nNF"} ELSE {})
    \cup (IF root.ide.dhEmi = "absent" /\ root.ide.dEmi = "absent"
          THEN {"dhEmi"} ELSE {})
    \cup MissingOfParty(root.emit) \cup MissingOfParty(root.dest)
    \cup (IF \E i \in 1..Len(root.dets) :
                root.dets[i].prod.present /\ ~root.dets[i].prod.complete
          THEN {"prod"} ELSE {})

\* The fields the text of an error names.  The AttributeError of a
\* find(...) that returned None reads "'NoneType' object has no attribute
\* 'text'": no field, no item number.
NamedIn(err) ==
    IF err = "Data de emissão não encontrada" THEN {"dhEmi"}
    ELSE IF err = "CNPJ não encontrado" THEN {"CNPJ"}
    ELSE IF err = "Endereço não encontrado" THEN {"ender"}
    ELSE {}

Parseable(text) == StructureValid(text) /\ validate_document_key(text.tree.Id)

\* C23: when a required field is absent from the input, parse_nfe_document
\* raises an error that names a missing field.
C23_MissingFieldNamed ==
    (stage # "new" /\ Parseable(xml) /\ MissingRequired(xml.tree) # {}) =>
        /\ stage = "failed"
        /\ NamedIn(perr) \cap MissingRequired(xml.tree) # {}

\* What a failed parse is about.
FailureKind(err) ==
    IF err = "Estrutura XML inválida para NF-e" THEN "structure"
    ELSE IF err = "Chave de documento inválida" THEN "key"
    ELSE IF err = "ValueError" THEN "date"
    ELSE IF err = "ValidationError" THEN "validation"
    ELSE "missing field"

\* C24: a malformed document key and a malformed issue timestamp are each
\* reported as an error variant of their own, different from each other's
\* and from that of structural-validation and missing-field errors.
C24_OwnVariants ==
    (stage = "failed" /\ FailureKind(perr) \in {"key", "date"}) =>
        \A t \in Texts :
            LET other == parse_nfe_document(t) IN
            (/\ ~other.ok
             /\ FailureKind(other.err) \in {"key", "date", "structure", "missing field"}
             /\ FailureKind(other.err) # FailureKind(perr)) =>
                error_type(other.err) # error_type(perr)

\* C25: a totals subtree without vNF makes the parse fail, while products
\* and services count as zero when absent.
C25_DocumentValueMandatory ==
    /\ (/\ stage # "new"
        /\ Parseable(xml)
        /\ xml.tree.ICMSTot.present
        /\ ~xml.tree.ICMSTot.vNF.present) => stage = "failed"
    /\ doc.present =>
          /\ ~xml.tree.ICMSTot.vProd.present => doc.total_products = Dec(0, 0)
          /\ ~xml.tree.ICMSTot.vServ.present => doc.total_services = Dec(0, 0)

\* A tree whose only irregularity is a party with a CPF and no CNPJ.
CpfOnly(root) ==
    \E p \in {"emit", "dest"} :
        /\ root[p].CNPJ = "absent"
        /\ root[p].CPF = "ok"
        /\ [root EXCEPT ![p] = PartyOk] = SampleTree

\* C26: a party that carries only a CPF is parsed, with the CPF as its tax
\* id; the parse fails for a missing tax id only when neither CNPJ nor CPF
\* is there.
C26_CpfFallback ==
    /\ (stage # "new" /\ CpfOnly(xml.tree)) => doc.present
    /\ (stage = "failed" /\ perr = "CNPJ não encontrado") =>
          \E p \in {"emit", "dest"} :
              xml.tree[p].CNPJ = "absent" /\ xml.tree[p].CPF = "absent"

\* C27: no two items of a parsed Document share an item_number.
C27_ItemNumbersUnique ==
    doc.present =>
        \A i, j \in 1..Len(doc.items) :
            i # j => doc.items[i].item_number # doc.items[j].item_number

\* C28: one call of _make_request_with_retry sends at most retry_attempts
\* requests; with retry_attempts = 0, or with no HTTP client, it sends none
\* and ends with a GovernmentAPIError.
C28_AtMostNRequests ==
    /\ sent <= retry_attempts
    /\ Len(responses) <= sent
    /\ (Done /\ (retry_attempts = 0 \/ client = "none")) =>
          /\ sent = 0
          /\ inner.kind = "raise"
          /\ inner.exc = "GovernmentAPIError"

C28_Witness ==
    /\ Done
    /\ retry_attempts = MaxRetry
    /\ sent = MaxRetry
    /\ inner.exc = "GovernmentAPIError"

C28_WitnessNone ==
    /\ Done
    /\ retry_attempts = 0
    /\ client = "open"
    /\ sent = 0

\* C29: when the IBS/CBS call of an item fails, calculate_document_taxes
\* raises, stops at that item, and the HTTP client it opened is closed.
C29_FailFast ==
    \A p \in Invocations :
        procs[p].pc = "failed" =>
            /\ procs[p].exc # "None"
            /\ procs[p].idx <= Len(docs[p])
            /\ Len(procs[p].item_taxes) = procs[p].idx - 1
            /\ p \in closed

\* C30: a Document a parse returns has at least one item.
C30_AtLeastOneItem ==
    doc.present => Len(doc.items) >= 1

====
